---- MODULE Spec2Model ----
(***************************************************************************)
(* KernelSelector (src/client/datascience/jupyter/kernels/                 *)
(* kernelSelector.ts): the kernel selection flows, the remote scoring      *)
(* matcher and the ignore list of the kernel picker.                       *)
(*                                                                         *)
(* One call of the selector is in flight at a time; pc is the await the    *)
(* call is suspended at.  Collaborator responses are drawn when the        *)
(* awaited promise settles.  The restart-session callbacks and the         *)
(* cancellation of the token run between the steps of the call.            *)
(***************************************************************************)
EXTENDS Integers, Sequences, FiniteSets, TLC

VARIABLES
    call,               \* the public method in flight, "none" between calls
    pc,                 \* the await the call in flight is suspended at
    kernelIdsToHide,    \* KernelSelector.kernelIdsToHide
    lastAdd,            \* history: the latest addKernelToIgnoreList, the list before
                        \* it, and whether the remove of the same kernel followed
    notebookMetadata,   \* arguments of the call
    type,
    disableUI,
    cancelToken,        \* "absent", "live" or "cancelled"
    fallback,           \* history: the token when the fallback test was made
    fetch,              \* the three promises handed to Promise.all
    interpreter,        \* const [interpreter, specs, sessions]
    specs,
    sessions,
    bestMatch,          \* locals of the scoring loop
    bestScore,
    scores,             \* the value of `score` at the end of each iteration
    selection,          \* `selection` of getKernelForLocalJupyterConnection / RawConnection
    use,                \* the frame of useInterpreterAsKernel, None outside it
    fetched,            \* what getKernelSelectionsFor...Session resolved to
    suggestions,        \* the list handed to showQuickPick
    picked,             \* `selection.selection` of selectKernel, None before the pick
    filteredOut,        \* history: the ids the filter has removed a candidate for
    calls,              \* collaborator calls issued by the call in flight
    detached,           \* the fire-and-forget promises of the call in flight
    result,             \* what the call returned
    thrown              \* the collaborator whose rejection the call rejected with

ignoreVars == <<kernelIdsToHide, lastAdd>>

argVars == <<notebookMetadata, type, disableUI, fallback>>

remoteVars == <<fetch, interpreter, specs, sessions, bestMatch, bestScore, scores>>

selectVars == <<fetched, suggestions, picked, filteredOut>>

vars == <<call, pc, ignoreVars, argVars, cancelToken, remoteVars, selection, use,
          selectVars, calls, detached, result, thrown>>

----------------------------------------------------------------------------
(* Values *)

\* An optional string that is absent.
Undefined == "<undefined>"

\* An optional object that is absent.
None == [undefined |-> TRUE]

\* Bound on the length of the kernel spec list the remote server returns.
MaxSpecs == 2

\* JavaScript truthiness of an optional string.
Truthy(s) == s # Undefined /\ s # ""

Digits == {"0", "1", "2", "3", "4", "5", "6", "7", "8", "9"}

\* \d
IsDigit(c) == c \in Digits

\* parseInt(c, 10) of one character.
ParseDigit(c) ==
    CASE c = "0" -> 0 [] c = "1" -> 1 [] c = "2" -> 2 [] c = "3" -> 3
      [] c = "4" -> 4 [] c = "5" -> 5 [] c = "6" -> 6 [] c = "7" -> 7
      [] c = "8" -> 8 [] c = "9" -> 9
      [] OTHER -> -1

\* /\D+(\d+)/.exec(name): the index in name where the captured digits start,
\* 0 when the pattern does not match.  The pattern is not anchored: it
\* matches at the first run of non-digits that a digit follows.
RegexCaptureStart(name) ==
    LET hits == {p \in 2..Len(name) : ~IsDigit(name[p - 1]) /\ IsDigit(name[p])}
    IN  IF hits = {} THEN 0
        ELSE CHOOSE p \in hits : \A q \in hits : p <= q

\* match[1]: the digits the pattern captured (a maximal run).
RegexCapture(name) ==
    LET p == RegexCaptureStart(name)
        stops == {q \in p..Len(name) : ~IsDigit(name[q])}
        last == IF stops = {} THEN Len(name)
                ELSE (CHOOSE q \in stops : \A r \in stops : q <= r) - 1
    IN  IF p = 0 THEN <<>> ELSE SubSeq(name, p, last)

----------------------------------------------------------------------------
(* Inputs of getKernelForRemoteConnection *)

PyPath == "/usr/bin/python3.9"

Py38 == <<"p", "y", "3", "8">>
Py0 == <<"p", "y", "0">>
P3k2 == <<"p", "3", "k", "2">>
N38 == <<"3", "8">>

\* interpreterService.getActiveInterpreter: a PythonInterpreter or nothing.
Interpreters ==
    { None,
      [path |-> PyPath,     version |-> [major |-> 3]],
      [path |-> PyPath,     version |-> None],
      [path |-> "/opt/py2", version |-> [major |-> 3]],
      [path |-> "/opt/py2", version |-> [major |-> 2]],
      [path |-> "",         version |-> [major |-> 0]] }

\* kernelService.getKernelSpecs: the entries of the list.
SpecPool ==
    { [name |-> Py38, path |-> PyPath,     display_name |-> Undefined],
      [name |-> <<>>, path |-> Undefined,  display_name |-> "Py3"],
      [name |-> Py38, path |-> PyPath,     display_name |-> "Py3"],
      [name |-> Py0,  path |-> "",         display_name |-> ""],
      [name |-> P3k2, path |-> "/opt/py2", display_name |-> "Other"],
      [name |-> N38,  path |-> Undefined,  display_name |-> Undefined],
      None }

SeqsUpTo(S, n) == UNION {[1..k -> S] : k \in 0..n}

SpecLists == SeqsUpTo(SpecPool, MaxSpecs)

\* sessionManager.getRunningSessions: [items |-> the list]; `sessions` is None
\* when there is no session manager.
\* A field of the kernel a session reports, as the server sent it: absent, a
\* number or a string (the characters of it).
Absent == [kind |-> "undefined"]
Num(n) == [kind |-> "number", value |-> n]
Str(chars) == [kind |-> "string", chars |-> chars]

\* The value parseInt gives where it finds no digits.
NaN == [kind |-> "NaN"]

\* JavaScript truthiness of such a field.
TruthyValue(v) ==
    \/ v.kind = "number" /\ v.value # 0
    \/ v.kind = "string" /\ v.chars # <<>>

DigitOf(n) ==
    CASE n = 0 -> "0" [] n = 1 -> "1" [] n = 2 -> "2" [] n = 3 -> "3" [] n = 4 -> "4"
      [] n = 5 -> "5" [] n = 6 -> "6" [] n = 7 -> "7" [] n = 8 -> "8" [] n = 9 -> "9"

\* value.toString() of a natural number or a string.
RECURSIVE NatToString(_)
NatToString(n) ==
    IF n < 10 THEN <<DigitOf(n)>> ELSE Append(NatToString(n \div 10), DigitOf(n % 10))

toString(v) == IF v.kind = "number" THEN NatToString(v.value) ELSE v.chars

\* The value of a run of digits.
RECURSIVE DigitsValue(_)
DigitsValue(ds) ==
    IF ds = <<>> THEN 0
    ELSE 10 * DigitsValue(SubSeq(ds, 1, Len(ds) - 1)) + ParseDigit(ds[Len(ds)])

\* parseInt(chars, 10): leading white space and a sign are skipped, the
\* digits that follow are the value, whatever comes after them is ignored;
\* NaN when no digit follows.
ParseInt(chars) ==
    LET blanks == {p \in 1..Len(chars) : \A q \in 1..p : chars[q] = " "}
        start == Cardinality(blanks) + 1
        signed == start <= Len(chars) /\ chars[start] \in {"-", "+"}
        first == IF signed THEN start + 1 ELSE start
        stops == {q \in first..Len(chars) : ~IsDigit(chars[q])}
        last == IF stops = {} THEN Len(chars)
                ELSE (CHOOSE q \in stops : \A r \in stops : q <= r) - 1
        value == DigitsValue(SubSeq(chars, first, last))
    IN  IF last < first THEN NaN
        ELSE IF signed /\ chars[start] = "-" THEN Num(0 - value)
        ELSE Num(value)

\* liveKernel.connections ? parseInt(liveKernel.connections.toString(), 10) : 0
NumberOfConnections(connections) ==
    IF TruthyValue(connections) THEN ParseInt(toString(connections)) ELSE Num(0)

\* new Date()
Now == [date |-> "now"]

\* new Date(Date.parse(text)): the date the text denotes.
DateOf(chars) == [date |-> "parsed", text |-> chars]

\* liveKernel.last_activity ? new Date(Date.parse(liveKernel.last_activity.toString()))
\*                          : new Date()
LastActivityTime(last_activity) ==
    IF TruthyValue(last_activity) THEN DateOf(toString(last_activity)) ELSE Now

A2020 == <<"2", "0", "2", "0">>

\* A session whose kernel reports `connections` and `last_activity`.
SessionWith(n, id, connections, last_activity) ==
    [name |-> n,
     kernel |-> [id |-> id, name |-> "python3", connections |-> connections,
                 last_activity |-> last_activity]]

\* A session whose kernel reports neither.
Session(n, id) == SessionWith(n, id, Absent, Absent)

SessionLists ==
    { [items |-> <<>>],
      [items |-> <<Session("s1", "k1")>>],
      [items |-> <<Session("s2", "k2"), SessionWith("s1", "k1", Num(12), Str(A2020))>>],
      [items |-> <<SessionWith("s1", "k1", Str(<<"a", "b">>), Str(<<>>)), Session("s3", "k1")>>],
      [items |-> <<SessionWith("s5", "k1", Str(<<" ", "3", "x">>), Absent)>>],
      [items |-> <<SessionWith("s6", "k1", Num(0), Str(A2020))>>],
      [items |-> <<Session("s4", "")>>] }

\* notebookMetadata?: INotebookMetadataLive
Metadatas ==
    { None,
      [id |-> Undefined, kernelspec |-> None],
      [id |-> Undefined, kernelspec |-> [display_name |-> "Py3"]],
      [id |-> Undefined, kernelspec |-> [display_name |-> ""]],
      [id |-> "",        kernelspec |-> [display_name |-> "Py3"]],
      [id |-> "k1",      kernelspec |-> [display_name |-> "Py3"]],
      [id |-> "k1",      kernelspec |-> None] }

\* notebookMetadata?.kernelspec?.display_name
DeclaredDisplayName(meta) ==
    IF meta = None THEN Undefined
    ELSE IF meta.kernelspec = None THEN Undefined
    ELSE meta.kernelspec.display_name

----------------------------------------------------------------------------
(* The scoring loop of getKernelForRemoteConnection *)

\* spec && spec.path && spec.path.length > 0 && interpreter &&
\* spec.path === interpreter.path
PathMatches(spec, interp) ==
    /\ spec # None
    /\ Truthy(spec.path)
    /\ interp # None
    /\ spec.path = interp.path

\* The version test: the first digit the pattern captures, parsed, is
\* non-zero and equals interpreter.version.major.
VersionMatches(spec, interp) ==
    /\ spec # None
    /\ interp # None
    /\ interp.version # None
    /\ spec.name # <<>>
    /\ RegexCaptureStart(spec.name) # 0
    /\ LET nameVersion == ParseDigit(RegexCapture(spec.name)[1])
       IN  nameVersion # 0 /\ nameVersion = interp.version.major

\* spec.display_name && spec.display_name === notebookMetadata?.kernelspec?.display_name
DisplayNameMatches(spec, meta) ==
    /\ spec # None
    /\ Truthy(spec.display_name)
    /\ spec.display_name = DeclaredDisplayName(meta)

PathScore == 8
VersionScore == 4
DisplayNameScore == 16

\* Variant: the path and version weights exchanged.
ScoreWeightsSwapped(spec, interp, meta) ==
    (IF PathMatches(spec, interp) THEN VersionScore ELSE 0)
    + (IF VersionMatches(spec, interp) THEN PathScore ELSE 0)
    + (IF DisplayNameMatches(spec, meta) THEN DisplayNameScore ELSE 0)

\* The value of `score` when the body of one iteration is done.
Score(spec, interp, meta) ==
    LET s0 == 0
        s1 == IF PathMatches(spec, interp) THEN s0 + PathScore ELSE s0
        s2 == IF VersionMatches(spec, interp) THEN s1 + VersionScore ELSE s1
        s3 == IF DisplayNameMatches(spec, meta) THEN s2 + DisplayNameScore ELSE s2
    IN  s3

\* Variant: a later candidate with an equal score replaces the earlier one.
ImprovesOrTies(score, best) == score >= best

\* Variant: a candidate that matched nothing is never taken.
ImprovesOnMatch(score, best) == score > best /\ score > 0

\* if (score > bestScore)
Improves(score, best) == score > best

\* let bestScore = -1
InitialBestScore == -1

\* for (let i = 0; specs && i < specs?.length; i = i + 1): the loop from
\* iteration i on, given the locals; yields the locals after the loop.
RECURSIVE ScoringLoop(_, _, _, _, _)
ScoringLoop(i, list, interp, meta, acc) ==
    IF i > Len(list) THEN acc
    ELSE LET score == Score(list[i], interp, meta)
             next == IF Improves(score, acc.bestScore)
                     THEN [bestMatch |-> list[i], bestScore |-> score,
                           scores |-> Append(acc.scores, score)]
                     ELSE [acc EXCEPT !.scores = Append(acc.scores, score)]
         IN  ScoringLoop(i + 1, list, interp, meta, next)

\* Variant: the session is looked up by its own name, not by its kernel's id.
FindSessionByName(list, id) ==
    LET hits == {i \in 1..Len(list) : list[i].name = id}
    IN  IF hits = {} THEN None
        ELSE list[CHOOSE i \in hits : \A j \in hits : i <= j]

\* sessions?.find((s) => s.kernel.id === notebookMetadata?.id)
FindSession(list, id) ==
    LET hits == {i \in 1..Len(list) : list[i].kernel.id = id}
    IN  IF hits = {} THEN None
        ELSE list[CHOOSE i \in hits : \A j \in hits : i <= j]

\* The branch taken at `if (notebookMetadata && notebookMetadata.id)` and
\* `if (session)`.
LiveSession(meta, list) ==
    IF meta # None /\ Truthy(meta.id) /\ list # None
    THEN FindSession(list.items, meta.id)
    ELSE None

\* kernelModel: { ...session.kernel, lastActivityTime, numberOfConnections, session }
LiveKernelModel(session) ==
    [id |-> session.kernel.id, name |-> session.kernel.name,
     connections |-> session.kernel.connections,
     last_activity |-> session.kernel.last_activity,
     lastActivityTime |-> LastActivityTime(session.kernel.last_activity),
     numberOfConnections |-> NumberOfConnections(session.kernel.connections),
     session |-> session]

----------------------------------------------------------------------------
(* Inputs of the local and the selection flows *)

\* Bound on the length of the suggestion list the selection provider returns.
MaxSuggestions == 2

ConnectionTypes == {"raw", "jupyter", "noConnection"}

\* notebookMetadata?: nbformat.INotebookMetadata, with or without a kernelspec.
LocalMetadatas ==
    { None,
      [id |-> Undefined, kernelspec |-> None],
      [id |-> Undefined, kernelspec |-> [display_name |-> "Py3"]],
      [id |-> Undefined, kernelspec |-> [display_name |-> ""]] }

\* if (notebookMetadata?.kernelspec)
DeclaresKernelSpec(meta) == meta # None /\ meta.kernelspec # None

ActiveInterpreter == [path |-> PyPath, version |-> [major |-> 3]]
OtherInterpreter == [path |-> "/opt/py2", version |-> [major |-> 2]]

InstalledSpec == [name |-> Py38, path |-> PyPath, display_name |-> "Py3"]
RegisteredSpec == [name |-> Py38, path |-> PyPath, display_name |-> Undefined]

\* createDefaultKernelSpec(interpreter.displayName)
DefaultKernelSpec == [name |-> <<>>, path |-> Undefined, display_name |-> "Py3"]

\* A KernelSpecInterpreter; {} is the one with no field set.
Selection(k, i, m) == [kernelSpec |-> k, interpreter |-> i, kernelModel |-> m]

EmptySelection == Selection(None, None, None)

\* The `selection` of an IKernelSpecQuickPickItem.
LiveItem(id) ==
    Selection(None, None, LiveKernelModel(Session("s1", id)))

InterpreterItem == Selection(None, OtherInterpreter, None)

SpecItem == Selection(InstalledSpec, None, None)

ItemPool == {LiveItem("abc"), LiveItem("def"), InterpreterItem, SpecItem}

SuggestionLists == SeqsUpTo(ItemPool, MaxSuggestions)

\* Kernel.IKernelConnection of a restart session: its id and its clientId.
Kernels ==
    { [id |-> "abc", clientId |-> "c1"],
      [id |-> "def", clientId |-> "c1"] }

\* item.selection.kernelModel?.id || ''
IdOrEmpty(item) ==
    IF item.kernelModel = None THEN ""
    ELSE IF Truthy(item.kernelModel.id) THEN item.kernelModel.id
    ELSE ""

\* Variant: a candidate without a kernel model is never looked up.
HiddenIfLive(item, hide) == item.kernelModel # None /\ item.kernelModel.id \in hide

\* this.kernelIdsToHide.has(item.selection.kernelModel?.id || '')
Hidden(item, hide) == IdOrEmpty(item) \in hide

\* Variant: the filter without its negation.
FilterKeepsHidden(list, hide) == SelectSeq(list, LAMBDA item : Hidden(item, hide))

\* suggestions.filter((item) => !this.kernelIdsToHide.has(...))
FilterSuggestions(list, hide) == SelectSeq(list, LAMBDA item : ~Hidden(item, hide))

Collaborators ==
    { "getKernelSelectionsForLocalSession", "getKernelSelectionsForRemoteSession",
      "findMatchingKernelSpec(kernelspec)", "findMatchingKernelSpec(interpreter)",
      "findMatchingInterpreter", "updateKernelEnvironment", "getActiveInterpreter",
      "getKernelSpecs", "getRunningSessions", "findKernelSpec",
      "areDependenciesInstalled", "registerKernel", "searchAndRegisterKernel",
      "jupyterSessionManagerFactory.create", "showErrorMessage",
      "showQuickPick", "showInformationMessage(fallback)",
      "showInformationMessage(registered)", "telemetry(KernelRegisterFailed)" }

NoCalls == [c \in Collaborators |-> 0]

\* The calls with one more call of each collaborator of the set cs.
Called(cs) == [c \in Collaborators |-> IF c \in cs THEN calls[c] + 1 ELSE calls[c]]

\* The promises nobody awaits: the pre-warm of getKernelForLocalConnection, the
\* refresh after registerKernel, the information message.
DetachedTasks == {"prewarm", "refresh", "notification"}

NoDetached == [t \in DetachedTasks |-> "none"]

Detach(ts) == [t \in DetachedTasks |-> IF t \in ts THEN "pending" ELSE detached[t]]

\* Variant: the token is not looked at.
NeverRequested(token) == FALSE

\* cancelToken?.isCancellationRequested
IsCancellationRequested(token) == token = "cancelled"

\* The token as it is when the fallback test is made.
FallbackWith(token) == IF token = "cancelled" THEN "cancelled" ELSE "taken"

----------------------------------------------------------------------------
(* Construction, the ignore list, the cancellation token, detached promises *)

Fetches == {"interpreter", "specs", "sessions"}

NoFetch == [f \in Fetches |-> "idle"]

Init ==
    /\ call = "none"
    /\ pc = "idle"
    /\ kernelIdsToHide = {}
    /\ lastAdd = None
    /\ notebookMetadata = None
    /\ type = "noConnection"
    /\ disableUI = FALSE
    /\ cancelToken = "absent"
    /\ fallback = "not reached"
    /\ fetch = NoFetch
    /\ interpreter = None
    /\ specs = <<>>
    /\ sessions = None
    /\ bestMatch = None
    /\ bestScore = InitialBestScore
    /\ scores = <<>>
    /\ selection = EmptySelection
    /\ use = None
    /\ fetched = <<>>
    /\ suggestions = <<>>
    /\ picked = None
    /\ filteredOut = {}
    /\ calls = NoCalls
    /\ detached = NoDetached
    /\ result = None
    /\ thrown = Undefined

\* Everything of a call but its position, its result and the ignore list.
frameVars == <<argVars, cancelToken, remoteVars, selection, use, selectVars>>

\* this.kernelIdsToHide.add(kernel.id); this.kernelIdsToHide.add(kernel.clientId)
WithKernel(hide, kernel) == (hide \cup {kernel.id}) \cup {kernel.clientId}

\* Variant: the clientId is left in the list.
WithoutKernelId(hide, kernel) == hide \ {kernel.id}

\* this.kernelIdsToHide.delete(kernel.id); this.kernelIdsToHide.delete(kernel.clientId)
WithoutKernel(hide, kernel) == (hide \ {kernel.id}) \ {kernel.clientId}

\* Variant: the callback also takes the kernel out of the list already handed
\* to the prompt.
addKernelToIgnoreListRefreshesPrompt(kernel) ==
    /\ kernelIdsToHide' = WithKernel(kernelIdsToHide, kernel)
    /\ lastAdd' = [kernel |-> kernel, before |-> kernelIdsToHide, removed |-> FALSE]
    /\ suggestions' = FilterSuggestions(suggestions, WithKernel(kernelIdsToHide, kernel))
    /\ UNCHANGED <<call, pc, argVars, cancelToken, remoteVars, selection, use,
                   fetched, picked, filteredOut, calls, detached, result, thrown>>

\* onRestartSessionCreated
addKernelToIgnoreList(kernel) ==
    /\ kernelIdsToHide' = WithKernel(kernelIdsToHide, kernel)
    /\ lastAdd' = [kernel |-> kernel, before |-> kernelIdsToHide, removed |-> FALSE]
    /\ UNCHANGED <<call, pc, frameVars, calls, detached, result, thrown>>

\* onRestartSessionUsed
removeKernelFromIgnoreList(kernel) ==
    /\ kernelIdsToHide' = WithoutKernel(kernelIdsToHide, kernel)
    /\ lastAdd' = IF lastAdd # None /\ lastAdd.kernel = kernel /\ ~lastAdd.removed
                  THEN [lastAdd EXCEPT !.removed = TRUE]
                  ELSE None
    /\ UNCHANGED <<call, pc, frameVars, calls, detached, result, thrown>>

\* The owner of the token cancels it while the call is in flight.
Cancel ==
    /\ cancelToken = "live"
    /\ pc \notin {"idle", "done", "failed"}
    /\ cancelToken' = "cancelled"
    /\ UNCHANGED <<call, pc, ignoreVars, argVars, remoteVars, selection, use,
                   selectVars, calls, detached, result, thrown>>

\* Variant: the rejection of a detached promise rejects the call in flight.
DetachedSettlesUnhandled(task, outcome) ==
    /\ detached[task] = "pending"
    /\ detached' = [detached EXCEPT ![task] = outcome]
    /\ IF outcome = "rejected"
       THEN pc' = "failed" /\ result' = None /\ thrown' = task
       ELSE UNCHANGED <<pc, result, thrown>>
    /\ UNCHANGED <<call, ignoreVars, frameVars, calls>>

\* A detached promise settles; .ignoreErrors() and .then(noop, noop) drop the outcome.
DetachedSettles(task, outcome) ==
    /\ detached[task] = "pending"
    /\ detached' = [detached EXCEPT ![task] = outcome]
    /\ UNCHANGED <<call, pc, ignoreVars, frameVars, calls, result, thrown>>

\* The call returns `value` to its caller.
Return(value) ==
    /\ pc' = "done"
    /\ result' = value
    /\ thrown' = thrown

\* useInterpreterAsKernel or selectKernel returns `value`; every caller on the
\* stack hands it on (getKernelForLocalJupyterConnection through `selection`).
ReturnToCaller(value) ==
    /\ Return(value)
    /\ selection' = IF call = "getKernelForLocalConnection" THEN value ELSE selection

\* The awaited collaborator rejected and nothing catches it: the call rejects.
Throw(collaborator) ==
    /\ pc' = "failed"
    /\ result' = result
    /\ thrown' = collaborator

\* The caller has the outcome; the selector is ready for the next call.
CallCompletes ==
    /\ pc \in {"done", "failed"}
    /\ call' = "none"
    /\ pc' = "idle"
    /\ notebookMetadata' = None
    /\ type' = "noConnection"
    /\ disableUI' = FALSE
    /\ cancelToken' = "absent"
    /\ fallback' = "not reached"
    /\ fetch' = NoFetch
    /\ interpreter' = None
    /\ specs' = <<>>
    /\ sessions' = None
    /\ bestMatch' = None
    /\ bestScore' = InitialBestScore
    /\ scores' = <<>>
    /\ selection' = EmptySelection
    /\ use' = None
    /\ fetched' = <<>>
    /\ suggestions' = <<>>
    /\ picked' = None
    /\ filteredOut' = filteredOut
    /\ calls' = NoCalls
    /\ detached' = NoDetached
    /\ result' = None
    /\ thrown' = Undefined
    /\ UNCHANGED ignoreVars

----------------------------------------------------------------------------
(* getKernelForRemoteConnection *)

\* The call: the three fetches are issued together.  Without a session
\* manager `sessionManager?.getRunningSessions()` is undefined, which
\* Promise.all passes through.
getKernelForRemoteConnection(meta, hasSessionManager) ==
    /\ pc = "idle"
    /\ call' = "getKernelForRemoteConnection"
    /\ pc' = "remote:Promise.all"
    /\ notebookMetadata' = meta
    /\ fetch' = [f \in Fetches |->
                    IF f = "sessions" /\ ~hasSessionManager THEN "ok" ELSE "pending"]
    /\ calls' = Called({"getActiveInterpreter", "getKernelSpecs"}
                       \cup IF hasSessionManager THEN {"getRunningSessions"} ELSE {})
    /\ UNCHANGED <<ignoreVars, type, disableUI, fallback, cancelToken, interpreter, specs,
                   sessions, bestMatch, bestScore, scores, selection, use,
                   selectVars, detached, result, thrown>>

\* What no step of the three fetches changes.
fetchFrame == <<call, ignoreVars, argVars, cancelToken, bestMatch, bestScore, scores,
                selection, use, selectVars, calls, detached, result, thrown>>

getActiveInterpreterResolves(i) ==
    /\ pc = "remote:Promise.all"
    /\ fetch["interpreter"] = "pending"
    /\ fetch' = [fetch EXCEPT !["interpreter"] = "ok"]
    /\ interpreter' = i
    /\ UNCHANGED <<pc, specs, sessions, fetchFrame>>

getKernelSpecsResolves(list) ==
    /\ pc = "remote:Promise.all"
    /\ fetch["specs"] = "pending"
    /\ fetch' = [fetch EXCEPT !["specs"] = "ok"]
    /\ specs' = list
    /\ UNCHANGED <<pc, interpreter, sessions, fetchFrame>>

getRunningSessionsResolves(list) ==
    /\ pc = "remote:Promise.all"
    /\ fetch["sessions"] = "pending"
    /\ fetch' = [fetch EXCEPT !["sessions"] = "ok"]
    /\ sessions' = list
    /\ UNCHANGED <<pc, interpreter, specs, fetchFrame>>

\* Variant: the rejection is caught and what is known so far is returned.
RemoteFetchRejectsReturnsPartial(f) ==
    /\ pc = "remote:Promise.all"
    /\ fetch[f] = "pending"
    /\ fetch' = [fetch EXCEPT ![f] = "failed"]
    /\ Return(Selection(None, interpreter, None))
    /\ UNCHANGED <<call, ignoreVars, argVars, cancelToken, interpreter, specs,
                   sessions, bestMatch, bestScore, scores, selection, use,
                   selectVars, calls, detached>>

\* One of the three promises rejects: Promise.all rejects and so does the call.
RemoteFetchRejects(f) ==
    /\ pc = "remote:Promise.all"
    /\ fetch[f] = "pending"
    /\ fetch' = [fetch EXCEPT ![f] = "failed"]
    /\ Throw(f)
    /\ UNCHANGED <<call, ignoreVars, argVars, cancelToken, interpreter, specs,
                   sessions, bestMatch, bestScore, scores, selection, use,
                   selectVars, calls, detached>>

\* return { kernelSpec: bestMatch, interpreter: interpreter }
SpecResult(best, interp) == Selection(best, interp, None)

\* return { kernelModel: {...}, interpreter: interpreter }
LiveResult(session, interp) == Selection(None, interp, LiveKernelModel(session))

\* Variant: a running session whose kernel is in the ignore list is passed over.
RemoteContinuesHidingIgnored ==
    /\ pc = "remote:Promise.all"
    /\ \A f \in Fetches : fetch[f] = "ok"
    /\ LET found == LiveSession(notebookMetadata, sessions)
           session == IF found # None /\ found.kernel.id \in kernelIdsToHide
                      THEN None ELSE found
           loop == ScoringLoop(1, specs, interpreter, notebookMetadata,
                               [bestMatch |-> None, bestScore |-> InitialBestScore,
                                scores |-> <<>>])
       IN  IF session # None
           THEN /\ Return(LiveResult(session, interpreter))
                /\ UNCHANGED <<bestMatch, bestScore, scores>>
           ELSE /\ bestMatch' = loop.bestMatch
                /\ bestScore' = loop.bestScore
                /\ scores' = loop.scores
                /\ Return(SpecResult(loop.bestMatch, interpreter))
    /\ UNCHANGED <<call, ignoreVars, argVars, cancelToken, fetch, interpreter, specs,
                   sessions, selection, use, selectVars, calls, detached>>

\* All three settled: the rest of the function runs without suspending.
RemoteContinues ==
    /\ pc = "remote:Promise.all"
    /\ \A f \in Fetches : fetch[f] = "ok"
    /\ LET session == LiveSession(notebookMetadata, sessions)
           loop == ScoringLoop(1, specs, interpreter, notebookMetadata,
                               [bestMatch |-> None, bestScore |-> InitialBestScore,
                                scores |-> <<>>])
       IN  IF session # None
           THEN /\ Return(LiveResult(session, interpreter))
                /\ UNCHANGED <<bestMatch, bestScore, scores>>
           ELSE /\ bestMatch' = loop.bestMatch
                /\ bestScore' = loop.bestScore
                /\ scores' = loop.scores
                /\ Return(SpecResult(loop.bestMatch, interpreter))
    /\ UNCHANGED <<call, ignoreVars, argVars, cancelToken, fetch, interpreter, specs,
                   sessions, selection, use, selectVars, calls, detached>>

----------------------------------------------------------------------------
(* useInterpreterAsKernel: entering it *)

\* The frame of a call useInterpreterAsKernel(resource, interp, t, name, session, ui, token).
UseFrame(interp, t, name, ui) ==
    [interpreter |-> interp, type |-> t, displayNameOfKernelNotFound |-> name,
     disableUI |-> ui, installed |-> "pending", matching |-> "not asked",
     kernelSpec |-> None]

\* The call runs up to `await this.kernelDepdencyService.areDependenciesInstalled(...)`.
EnterUseInterpreterAsKernel(interp, t, name, ui) ==
    /\ use' = UseFrame(interp, t, name, ui)
    /\ pc' = "use:areDependenciesInstalled"
    /\ calls' = Called({"areDependenciesInstalled"})

\* selectLocalKernel runs up to `await ...getKernelSelectionsForLocalSession(...)`.
EnterSelectLocalKernel ==
    /\ pc' = "select:getKernelSelectionsForLocalSession"
    /\ calls' = Called({"getKernelSelectionsForLocalSession"})

----------------------------------------------------------------------------
(* getKernelForLocalConnection *)

\* Variant: every type with a connection goes through the Jupyter flow.
UsesJupyterFlowUnlessNoConnection(t) == t # "noConnection"

\* if (type === 'jupyter')
UsesJupyterFlow(t) == t = "jupyter"

\* The call: the pre-warm is issued and left alone, then the branch on `type`
\* runs up to its first await.
getKernelForLocalConnection(t, meta, ui, token) ==
    /\ pc = "idle"
    /\ call' = "getKernelForLocalConnection"
    /\ notebookMetadata' = meta
    /\ type' = t
    /\ disableUI' = ui
    /\ cancelToken' = token
    /\ detached' = Detach({"prewarm"})
    /\ selection' = EmptySelection
    /\ fallback' = IF UsesJupyterFlow(t) /\ ~DeclaresKernelSpec(meta)
                   THEN FallbackWith(token) ELSE "not reached"
    /\ IF UsesJupyterFlow(t)
       THEN IF DeclaresKernelSpec(meta)
            THEN /\ pc' = "jupyter:findMatchingKernelSpec"
                 /\ calls' = Called({"getKernelSelectionsForLocalSession",
                                     "findMatchingKernelSpec(kernelspec)"})
                 /\ UNCHANGED <<result, thrown>>
            ELSE IF ~IsCancellationRequested(token)
            THEN /\ pc' = "jupyter:getActiveInterpreter(no kernelspec)"
                 /\ calls' = Called({"getKernelSelectionsForLocalSession",
                                     "getActiveInterpreter"})
                 /\ UNCHANGED <<result, thrown>>
            ELSE /\ calls' = Called({"getKernelSelectionsForLocalSession"})
                 /\ Return(EmptySelection)
       ELSE IF t = "raw"
       THEN /\ pc' = "raw:findKernelSpec"
            /\ calls' = Called({"getKernelSelectionsForLocalSession", "findKernelSpec"})
            /\ UNCHANGED <<result, thrown>>
       ELSE /\ calls' = Called({"getKernelSelectionsForLocalSession"})
            /\ Return(EmptySelection)
    /\ UNCHANGED <<ignoreVars, remoteVars, use, selectVars>>

\* What the steps of the local flow that stay in it leave alone.
localFrame == <<call, ignoreVars, argVars, cancelToken, remoteVars, selectVars, detached>>

\* selection.kernelSpec = await this.kernelService.findMatchingKernelSpec(
\*     notebookMetadata?.kernelspec, ...)
\* and the branch on it, with the cancellation test of the fallback.
JupyterKernelSpecLookupResolves(k) ==
    /\ pc = "jupyter:findMatchingKernelSpec"
    /\ selection' = [selection EXCEPT !.kernelSpec = k]
    /\ IF k # None
       THEN /\ pc' = "jupyter:findMatchingInterpreter"
            /\ calls' = Called({"findMatchingInterpreter"})
            /\ UNCHANGED <<result, thrown>>
       ELSE IF ~IsCancellationRequested(cancelToken)
       THEN /\ pc' = "jupyter:getActiveInterpreter"
            /\ calls' = Called({"getActiveInterpreter"})
            /\ UNCHANGED <<result, thrown>>
       ELSE /\ Return(selection')
            /\ UNCHANGED calls
    /\ fallback' = IF k # None THEN fallback ELSE FallbackWith(cancelToken)
    /\ UNCHANGED <<call, ignoreVars, notebookMetadata, type, disableUI, cancelToken,
                   remoteVars, selectVars, detached, use>>

\* Variant: the selection is returned without the environment update.
JupyterInterpreterResolvesReturns(i) ==
    /\ pc = "jupyter:findMatchingInterpreter"
    /\ selection' = [selection EXCEPT !.interpreter = i]
    /\ Return(selection')
    /\ UNCHANGED <<localFrame, use, calls>>

\* selection.interpreter = await this.kernelService.findMatchingInterpreter(...)
JupyterInterpreterResolves(i) ==
    /\ pc = "jupyter:findMatchingInterpreter"
    /\ selection' = [selection EXCEPT !.interpreter = i]
    /\ pc' = "jupyter:updateKernelEnvironment"
    /\ calls' = Called({"updateKernelEnvironment"})
    /\ UNCHANGED <<localFrame, use, result, thrown>>

\* await this.kernelService.updateKernelEnvironment(...); return selection
JupyterEnvironmentUpdated ==
    /\ pc = "jupyter:updateKernelEnvironment"
    /\ Return(selection)
    /\ UNCHANGED <<localFrame, selection, use, calls>>

\* Variant: the user is always asked, whatever the active interpreter is.
JupyterActiveInterpreterIgnored(i) ==
    /\ pc = "jupyter:getActiveInterpreter"
    /\ EnterSelectLocalKernel
    /\ UNCHANGED <<localFrame, selection, use, result, thrown>>

\* const activeInterpreter = await this.interpreterService.getActiveInterpreter(resource)
\* in the branch of a declared kernel spec that was not found.
JupyterActiveInterpreterResolves(i) ==
    /\ pc = "jupyter:getActiveInterpreter"
    /\ IF i # None
       THEN EnterUseInterpreterAsKernel(i, "jupyter",
                                        notebookMetadata.kernelspec.display_name,
                                        disableUI)
       ELSE EnterSelectLocalKernel /\ UNCHANGED use
    /\ UNCHANGED <<localFrame, selection, result, thrown>>

\* The same await in the branch of a notebook that declares no kernel spec.
JupyterNoSpecActiveInterpreterResolves(i) ==
    /\ pc = "jupyter:getActiveInterpreter(no kernelspec)"
    /\ IF i # None
       THEN /\ selection' = [selection EXCEPT !.interpreter = i]
            /\ pc' = "jupyter:searchAndRegisterKernel"
            /\ calls' = Called({"searchAndRegisterKernel"})
            /\ UNCHANGED <<result, thrown>>
       ELSE /\ Return(selection)
            /\ UNCHANGED <<selection, calls>>
    /\ UNCHANGED <<localFrame, use>>

\* selection.kernelSpec = await this.kernelService.searchAndRegisterKernel(...)
SearchAndRegisterKernelResolves(k) ==
    /\ pc = "jupyter:searchAndRegisterKernel"
    /\ selection' = [selection EXCEPT !.kernelSpec = k]
    /\ Return(selection')
    /\ UNCHANGED <<localFrame, use, calls>>

\* selection.kernelSpec = await this.kernelFinder.findKernelSpec(...)
RawFindKernelSpecResolves(k) ==
    /\ pc = "raw:findKernelSpec"
    /\ selection' = [selection EXCEPT !.kernelSpec = k]
    /\ IF k # None
       THEN /\ pc' = "raw:findMatchingInterpreter"
            /\ calls' = Called({"findMatchingInterpreter"})
            /\ UNCHANGED <<result, thrown>>
       ELSE /\ Return(selection')
            /\ UNCHANGED calls
    /\ UNCHANGED <<localFrame, use>>

\* selection.interpreter = await this.kernelService.findMatchingInterpreter(...)
RawInterpreterResolves(i) ==
    /\ pc = "raw:findMatchingInterpreter"
    /\ selection' = [selection EXCEPT !.interpreter = i]
    /\ Return(selection')
    /\ UNCHANGED <<localFrame, use, calls>>

----------------------------------------------------------------------------
(* useInterpreterAsKernel *)

useFrame == <<call, ignoreVars, argVars, cancelToken, remoteVars, selectVars>>

\* Variant: the notification is shown whenever a display name was passed.
NotifiesWheneverNamed(frame) == Truthy(frame.displayNameOfKernelNotFound)

\* if (displayNameOfKernelNotFound && !disableUI)
Notifies(frame) == Truthy(frame.displayNameOfKernelNotFound) /\ ~frame.disableUI

\* Variant: a matching kernel spec is looked for whatever the check reports.
LooksForKernelSpecAlways(installed) == TRUE

\* if (await this.kernelDepdencyService.areDependenciesInstalled(...)): the
\* branch that looks for a kernel spec of the interpreter.
LooksForKernelSpec(installed) == installed

\* The outcome of that await and the branch on it.
DependenciesResolve(installed) ==
    /\ pc = "use:areDependenciesInstalled"
    /\ IF LooksForKernelSpec(installed)
       THEN /\ use' = [use EXCEPT !.installed = IF installed THEN "yes" ELSE "no",
                                       !.matching = "pending"]
            /\ pc' = "use:findMatchingKernelSpec"
            /\ calls' = Called({"findMatchingKernelSpec(interpreter)"})
       ELSE /\ use' = [use EXCEPT !.installed = "no"]
            /\ pc' = "use:registerKernel"
            /\ calls' = Called({"registerKernel"})
    /\ UNCHANGED <<useFrame, selection, detached, result, thrown>>

\* kernelSpec = await this.kernelService.findMatchingKernelSpec(interpreter, session, cancelToken)
UseKernelSpecLookupResolves(k) ==
    /\ pc = "use:findMatchingKernelSpec"
    /\ IF k # None
       THEN /\ use' = [use EXCEPT !.matching = "found", !.kernelSpec = k]
            /\ pc' = "use:updateKernelEnvironment"
            /\ calls' = Called({"updateKernelEnvironment"})
       ELSE /\ use' = [use EXCEPT !.matching = "none"]
            /\ pc' = "use:registerKernel"
            /\ calls' = Called({"registerKernel"})
    /\ UNCHANGED <<useFrame, selection, detached, result, thrown>>

\* await this.kernelService.updateKernelEnvironment(interpreter, kernelSpec, cancelToken),
\* the notification, return { kernelSpec, interpreter }
UseEnvironmentUpdated ==
    /\ pc = "use:updateKernelEnvironment"
    /\ IF Notifies(use)
       THEN /\ calls' = Called({"showInformationMessage(fallback)"})
            /\ detached' = Detach({"notification"})
       ELSE UNCHANGED <<calls, detached>>
    /\ ReturnToCaller(Selection(use.kernelSpec, use.interpreter, None))
    /\ UNCHANGED <<useFrame, use>>

\* kernelSpec = await this.kernelService.registerKernel(interpreter, disableUI, cancelToken)
\* resolved: the notification, the refresh of the suggestion list, the return.
RegisterKernelResolves(k) ==
    /\ pc = "use:registerKernel"
    /\ use' = [use EXCEPT !.kernelSpec = k]
    /\ IF Notifies(use)
       THEN /\ calls' = Called({"showInformationMessage(registered)",
                                "getKernelSelectionsForLocalSession"})
            /\ detached' = Detach({"notification", "refresh"})
       ELSE /\ calls' = Called({"getKernelSelectionsForLocalSession"})
            /\ detached' = Detach({"refresh"})
    /\ ReturnToCaller(Selection(k, use.interpreter, None))
    /\ UNCHANGED useFrame

\* Variant: the failure is swallowed and an empty result returned.
RegistrationFailureSwallowed == Return(EmptySelection)

\* throw e
RegistrationFailure == Throw("registerKernel")

\* catch (e) { sendTelemetryEvent(Telemetry.KernelRegisterFailed); throw e; }
RegisterKernelRejects ==
    /\ pc = "use:registerKernel"
    /\ calls' = Called({"telemetry(KernelRegisterFailed)"})
    /\ RegistrationFailure
    /\ UNCHANGED <<useFrame, selection, use, detached>>

----------------------------------------------------------------------------
(* selectLocalKernel, selectRemoteKernel, selectKernel *)

selectLocalKernel(t, token) ==
    /\ pc = "idle"
    /\ call' = "selectLocalKernel"
    /\ type' = t
    /\ cancelToken' = token
    /\ EnterSelectLocalKernel
    /\ UNCHANGED <<ignoreVars, notebookMetadata, disableUI, fallback, remoteVars,
                   selection, use, selectVars, detached, result, thrown>>

\* selectKernel is called with the type 'jupyter'.
selectRemoteKernel(token) ==
    /\ pc = "idle"
    /\ call' = "selectRemoteKernel"
    /\ type' = "jupyter"
    /\ cancelToken' = token
    /\ pc' = "select:getKernelSelectionsForRemoteSession"
    /\ calls' = Called({"getKernelSelectionsForRemoteSession"})
    /\ UNCHANGED <<ignoreVars, notebookMetadata, disableUI, fallback, remoteVars,
                   selection, use, selectVars, detached, result, thrown>>

selectFrame == <<call, ignoreVars, argVars, cancelToken, remoteVars, detached>>

\* Variant: the filter takes what it finds out of the ignore list.
SuggestionsResolveConsumesIgnored(list) ==
    /\ pc \in {"select:getKernelSelectionsForLocalSession",
               "select:getKernelSelectionsForRemoteSession"}
    /\ fetched' = list
    /\ suggestions' = FilterSuggestions(list, kernelIdsToHide)
    /\ kernelIdsToHide' = kernelIdsToHide \ {IdOrEmpty(list[i]) : i \in 1..Len(list)}
    /\ filteredOut' = filteredOut \cup
           {IdOrEmpty(list[i]) : i \in {j \in 1..Len(list) : Hidden(list[j], kernelIdsToHide)}}
    /\ pc' = "select:showQuickPick"
    /\ calls' = Called({"showQuickPick"})
    /\ UNCHANGED <<call, lastAdd, argVars, cancelToken, remoteVars, detached,
                   selection, use, picked, result, thrown>>

\* let suggestions = await this.selectionProvider.getKernelSelectionsFor...Session(...);
\* the filter; selectKernel up to `await this.applicationShell.showQuickPick(...)`.
SuggestionsResolve(list) ==
    /\ pc \in {"select:getKernelSelectionsForLocalSession",
               "select:getKernelSelectionsForRemoteSession"}
    /\ fetched' = list
    /\ suggestions' = FilterSuggestions(list, kernelIdsToHide)
    /\ filteredOut' = filteredOut \cup
           {IdOrEmpty(list[i]) : i \in {j \in 1..Len(list) : Hidden(list[j], kernelIdsToHide)}}
    /\ pc' = "select:showQuickPick"
    /\ calls' = Called({"showQuickPick"})
    /\ UNCHANGED <<selectFrame, selection, use, picked, result, thrown>>

\* Variant: nothing is returned where {} is.
PickedNothingReturnsUndefined ==
    /\ ReturnToCaller(None)
    /\ UNCHANGED <<use, calls>>

\* if (!selection?.selection) { return {}; }
PickedNothing ==
    /\ ReturnToCaller(EmptySelection)
    /\ UNCHANGED <<use, calls>>

\* const selection = await this.applicationShell.showQuickPick(...): the item
\* at index `choice` of the list, or nothing (choice 0), and the branch on it.
QuickPickResolves(choice) ==
    /\ pc = "select:showQuickPick"
    /\ choice \in 0..Len(suggestions)
    /\ LET item == IF choice = 0 THEN None ELSE suggestions[choice]
       IN  /\ picked' = item
           /\ IF item = None
              THEN PickedNothing
              ELSE IF item.interpreter # None /\ type = "jupyter"
              THEN /\ EnterUseInterpreterAsKernel(item.interpreter, type, Undefined, FALSE)
                   /\ UNCHANGED <<selection, result, thrown>>
              ELSE IF item.interpreter # None /\ type = "raw"
              THEN /\ ReturnToCaller(Selection(DefaultKernelSpec, item.interpreter, None))
                   /\ UNCHANGED <<use, calls>>
              ELSE IF item.kernelModel # None
              THEN /\ pc' = "select:findMatchingInterpreter(kernelModel)"
                   /\ calls' = Called({"findMatchingInterpreter"})
                   /\ UNCHANGED <<selection, use, result, thrown>>
              ELSE IF item.kernelSpec # None
              THEN /\ pc' = "select:findMatchingInterpreter(kernelSpec)"
                   /\ calls' = Called({"findMatchingInterpreter"})
                   /\ UNCHANGED <<selection, use, result, thrown>>
              ELSE /\ ReturnToCaller(EmptySelection)
                   /\ UNCHANGED <<use, calls>>
    /\ UNCHANGED <<selectFrame, fetched, suggestions, filteredOut>>

\* const interpreter = await this.kernelService.findMatchingInterpreter(
\*     selection.selection.kernelModel, cancelToken); return {...}
SelectedModelInterpreterResolves(i) ==
    /\ pc = "select:findMatchingInterpreter(kernelModel)"
    /\ ReturnToCaller(Selection(picked.kernelSpec, i, picked.kernelModel))
    /\ UNCHANGED <<selectFrame, use, selectVars, calls>>

\* const interpreter = await this.kernelService.findMatchingInterpreter(
\*     selection.selection.kernelSpec, cancelToken), kept in `picked`.
SelectedSpecInterpreterResolves(i) ==
    /\ pc = "select:findMatchingInterpreter(kernelSpec)"
    /\ picked' = [picked EXCEPT !.interpreter = i]
    /\ pc' = "select:updateKernelEnvironment"
    /\ calls' = Called({"updateKernelEnvironment"})
    /\ UNCHANGED <<selectFrame, selection, use, fetched, suggestions, filteredOut,
                   result, thrown>>

\* await this.kernelService.updateKernelEnvironment(...); return { kernelSpec, interpreter }
SelectedSpecEnvironmentUpdated ==
    /\ pc = "select:updateKernelEnvironment"
    /\ ReturnToCaller(Selection(picked.kernelSpec, picked.interpreter, None))
    /\ UNCHANGED <<selectFrame, use, selectVars, calls>>


----------------------------------------------------------------------------
(* selectJupyterKernel *)

Upper == <<"A", "B", "C", "D", "E", "F", "G", "H", "I", "J", "K", "L", "M",
           "N", "O", "P", "Q", "R", "S", "T", "U", "V", "W", "X", "Y", "Z">>
Lower == <<"a", "b", "c", "d", "e", "f", "g", "h", "i", "j", "k", "l", "m",
           "n", "o", "p", "q", "r", "s", "t", "u", "v", "w", "x", "y", "z">>

LowerChar(c) ==
    IF \E k \in 1..Len(Upper) : Upper[k] = c
    THEN Lower[CHOOSE k \in 1..Len(Upper) : Upper[k] = c]
    ELSE c

\* text.toLowerCase()
ToLowerCase(chars) == [k \in 1..Len(chars) |-> LowerChar(chars[k])]

\* Settings.JupyterServerLocalLaunch
JupyterServerLocalLaunch == <<"l", "o", "c", "a", "l">>

\* settings.datascience.jupyterServerURI
ServerURIs ==
    { <<"l", "o", "c", "a", "l">>,
      <<"L", "o", "C", "A", "L">>,
      <<"h", "t", "t", "p", ":", "/", "/", "h", ":", "8">> }

\* connection: INotebookProviderConnection | undefined; localLaunch is
\* "true", "false" or absent.
Connections ==
    {None} \cup
    { [localLaunch |-> l, type |-> t] :
          l \in {"true", "false", Undefined}, t \in {"jupyter", "raw"} }

\* Variant: || where ?? is, so that a defined false falls back to the URI.
IsLocalConnectionOr(connection, uri) ==
    \/ connection # None /\ connection.localLaunch = "true"
    \/ ToLowerCase(uri) = JupyterServerLocalLaunch

\* connection?.localLaunch ??
\*     settings.datascience.jupyterServerURI.toLowerCase() === Settings.JupyterServerLocalLaunch
IsLocalConnection(connection, uri) ==
    IF connection # None /\ connection.localLaunch # Undefined
    THEN connection.localLaunch = "true"
    ELSE ToLowerCase(uri) = JupyterServerLocalLaunch

\* `kernel` of selectJupyterKernel when neither branch assigned it.
UndefinedResult == [returned |-> "undefined"]

\* The call, up to the first await of the flow it runs: the suggestions of
\* selectLocalKernel (with connection?.type || type), or the creation of the
\* session manager for selectRemoteKernel; neither when the connection is not
\* local and not of the type jupyter.
selectJupyterKernel(connection, uri, t) ==
    /\ pc = "idle"
    /\ call' = "selectJupyterKernel"
    /\ cancelToken' = "absent"
    /\ IF IsLocalConnection(connection, uri)
       THEN /\ type' = IF connection # None THEN connection.type ELSE t
            /\ EnterSelectLocalKernel
            /\ UNCHANGED <<result, thrown>>
       ELSE IF connection # None /\ connection.type = "jupyter"
       THEN /\ type' = "jupyter"
            /\ pc' = "selectJupyter:jupyterSessionManagerFactory.create"
            /\ calls' = Called({"jupyterSessionManagerFactory.create"})
            /\ UNCHANGED <<result, thrown>>
       ELSE /\ Return(UndefinedResult)
            /\ UNCHANGED <<type, calls>>
    /\ UNCHANGED <<ignoreVars, notebookMetadata, disableUI, fallback, remoteVars,
                   selection, use, selectVars, detached>>

\* const session = await this.jupyterSessionManagerFactory.create(connInfo);
\* return this.selectRemoteKernel(resource, stopWatch, session, undefined, ...)
SessionManagerCreated ==
    /\ pc = "selectJupyter:jupyterSessionManagerFactory.create"
    /\ pc' = "select:getKernelSelectionsForRemoteSession"
    /\ calls' = Called({"getKernelSelectionsForRemoteSession"})
    /\ UNCHANGED <<selectFrame, selection, use, selectVars, result, thrown>>

----------------------------------------------------------------------------
(* askForLocalKernel *)

\* The button the user presses on the error message, or none.
ErrorMessageChoices == {"selectDifferentKernel", "cancel", Undefined}

\* The call, up to `await this.applicationShell.showErrorMessage(message, selectKernel, cancel)`.
askForLocalKernel(t) ==
    /\ pc = "idle"
    /\ call' = "askForLocalKernel"
    /\ type' = t
    /\ cancelToken' = "absent"
    /\ pc' = "ask:showErrorMessage"
    /\ calls' = Called({"showErrorMessage"})
    /\ UNCHANGED <<ignoreVars, notebookMetadata, disableUI, fallback, remoteVars,
                   selection, use, selectVars, detached, result, thrown>>

\* if (selection === selectKernel) { return this.selectLocalJupyterKernel(...); }
\* and nothing is returned otherwise.
ErrorMessageResolves(choice) ==
    /\ pc = "ask:showErrorMessage"
    /\ IF choice = "selectDifferentKernel"
       THEN /\ EnterSelectLocalKernel
            /\ UNCHANGED <<result, thrown>>
       ELSE /\ Return(UndefinedResult)
            /\ UNCHANGED calls
    /\ UNCHANGED <<selectFrame, selection, use, selectVars>>
----------------------------------------------------------------------------
(* Rejections, and the specifications *)

\* The awaits whose rejection nothing in this class catches.
UncaughtAwaits ==
    { "jupyter:findMatchingKernelSpec", "jupyter:findMatchingInterpreter",
      "jupyter:updateKernelEnvironment", "jupyter:getActiveInterpreter",
      "jupyter:getActiveInterpreter(no kernelspec)", "jupyter:searchAndRegisterKernel",
      "raw:findKernelSpec", "raw:findMatchingInterpreter",
      "use:areDependenciesInstalled", "use:findMatchingKernelSpec",
      "use:updateKernelEnvironment",
      "selectJupyter:jupyterSessionManagerFactory.create", "ask:showErrorMessage",
      "select:getKernelSelectionsForLocalSession",
      "select:getKernelSelectionsForRemoteSession", "select:showQuickPick",
      "select:findMatchingInterpreter(kernelModel)",
      "select:findMatchingInterpreter(kernelSpec)", "select:updateKernelEnvironment" }

\* The awaited collaborator rejects; the rejection goes up to the caller.
CollaboratorRejects ==
    /\ pc \in UncaughtAwaits
    /\ Throw(pc)
    /\ UNCHANGED <<call, ignoreVars, frameVars, calls, detached>>

Tokens == {"absent", "live", "cancelled"}

Optional(x) == {None, x}

NextUse ==
    \/ \E b \in BOOLEAN : DependenciesResolve(b)
    \/ \E k \in Optional(InstalledSpec) : UseKernelSpecLookupResolves(k)
    \/ UseEnvironmentUpdated
    \/ \E k \in Optional(RegisteredSpec) : RegisterKernelResolves(k)
    \/ RegisterKernelRejects

NextSelectKernel ==
    \/ \E list \in SuggestionLists : SuggestionsResolve(list)
    \/ \E choice \in 0..(MaxSuggestions + 1) : QuickPickResolves(choice)
    \/ \E i \in Optional(OtherInterpreter) : SelectedModelInterpreterResolves(i)
    \/ \E i \in Optional(OtherInterpreter) : SelectedSpecInterpreterResolves(i)
    \/ SelectedSpecEnvironmentUpdated

NextLocal ==
    \/ \E t \in ConnectionTypes, meta \in LocalMetadatas, ui \in BOOLEAN,
          token \in Tokens : getKernelForLocalConnection(t, meta, ui, token)
    \/ \E k \in Optional(InstalledSpec) : JupyterKernelSpecLookupResolves(k)
    \/ \E i \in Optional(OtherInterpreter) : JupyterInterpreterResolves(i)
    \/ JupyterEnvironmentUpdated
    \/ \E i \in Optional(ActiveInterpreter) : JupyterActiveInterpreterResolves(i)
    \/ \E i \in Optional(ActiveInterpreter) : JupyterNoSpecActiveInterpreterResolves(i)
    \/ \E k \in Optional(RegisteredSpec) : SearchAndRegisterKernelResolves(k)
    \/ \E k \in Optional(InstalledSpec) : RawFindKernelSpecResolves(k)
    \/ \E i \in Optional(OtherInterpreter) : RawInterpreterResolves(i)

NextEnvironment ==
    \/ \E t \in DetachedTasks, o \in {"resolved", "rejected"} : DetachedSettles(t, o)
    \/ CollaboratorRejects
    \/ CallCompletes

NextIgnoreList ==
    \/ \E k \in Kernels : addKernelToIgnoreList(k)
    \/ \E k \in Kernels : removeKernelFromIgnoreList(k)

NextRemote ==
    \/ \E meta \in Metadatas, m \in BOOLEAN : getKernelForRemoteConnection(meta, m)
    \/ \E i \in Interpreters : getActiveInterpreterResolves(i)
    \/ \E list \in SpecLists : getKernelSpecsResolves(list)
    \/ \E list \in SessionLists : getRunningSessionsResolves(list)
    \/ \E f \in Fetches : RemoteFetchRejects(f)
    \/ RemoteContinues
    \/ CallCompletes

Next ==
    \/ NextLocal
    \/ Cancel
    \/ NextSelectKernel
    \/ NextUse
    \/ NextEnvironment

\* The callers of selectLocalKernel and selectRemoteKernel in this class pass
\* no cancellation token.
NextSelect ==
    \/ \E t \in ConnectionTypes : selectLocalKernel(t, "absent")
    \/ selectRemoteKernel("absent")
    \/ NextSelectKernel
    \/ NextUse
    \/ NextEnvironment
    \/ NextIgnoreList

NextSelectJupyter ==
    \/ \E connection \in Connections, uri \in ServerURIs, t \in {"raw", "jupyter"} :
          selectJupyterKernel(connection, uri, t)
    \/ SessionManagerCreated
    \/ NextSelectKernel
    \/ NextUse
    \/ NextEnvironment

\* getKernelForLocalConnection and the flows it falls back to.
Spec == Init /\ [][Next]_vars

\* selectLocalKernel and selectRemoteKernel with the restart-session callbacks.
SpecSelect == Init /\ [][NextSelect]_vars

\* getKernelForRemoteConnection.
SpecRemote == Init /\ [][NextRemote]_vars

\* selectJupyterKernel and the select flows it runs.
SpecSelectJupyter == Init /\ [][NextSelectJupyter]_vars

----------------------------------------------------------------------------
(* Every flow of the selector beside the restart-session callbacks *)

\* The kernels of restart sessions: one with an id and a clientId, one whose
\* id is the empty string.
RestartKernels ==
    { [id |-> "abc", clientId |-> "c1"],
      [id |-> "",    clientId |-> "c2"] }

\* What the selection provider resolves to.
ProvidedLists ==
    { <<>>,
      <<LiveItem("abc"), SpecItem>>,
      <<InterpreterItem, LiveItem("def")>> }

\* The notebook of the running kernel "abc", and no notebook metadata.
RunningMetadatas == {None, [id |-> "abc", kernelspec |-> None]}

RunningSessions == {[items |-> <<Session("s1", "abc")>>]}

NextAllFlows ==
    \/ \E k \in RestartKernels : addKernelToIgnoreList(k)
    \/ \E k \in RestartKernels : removeKernelFromIgnoreList(k)
    \/ selectLocalKernel("jupyter", "absent")
    \/ selectRemoteKernel("absent")
    \/ \E connection \in Connections :
          selectJupyterKernel(connection, JupyterServerLocalLaunch, "jupyter")
    \/ SessionManagerCreated
    \/ askForLocalKernel("jupyter")
    \/ \E choice \in ErrorMessageChoices : ErrorMessageResolves(choice)
    \/ \E list \in ProvidedLists : SuggestionsResolve(list)
    \/ \E choice \in 0..2 : QuickPickResolves(choice)
    \/ \E i \in Optional(OtherInterpreter) : SelectedModelInterpreterResolves(i)
    \/ \E i \in Optional(OtherInterpreter) : SelectedSpecInterpreterResolves(i)
    \/ SelectedSpecEnvironmentUpdated
    \/ NextUse
    \/ \E t \in ConnectionTypes, meta \in {None, [id |-> Undefined, kernelspec |-> [display_name |-> "Py3"]]} :
          getKernelForLocalConnection(t, meta, FALSE, "absent")
    \/ \E k \in Optional(InstalledSpec) : JupyterKernelSpecLookupResolves(k)
    \/ JupyterInterpreterResolves(OtherInterpreter)
    \/ JupyterEnvironmentUpdated
    \/ \E i \in Optional(ActiveInterpreter) : JupyterActiveInterpreterResolves(i)
    \/ \E i \in Optional(ActiveInterpreter) : JupyterNoSpecActiveInterpreterResolves(i)
    \/ SearchAndRegisterKernelResolves(RegisteredSpec)
    \/ \E k \in Optional(InstalledSpec) : RawFindKernelSpecResolves(k)
    \/ RawInterpreterResolves(OtherInterpreter)
    \/ \E meta \in RunningMetadatas, m \in BOOLEAN : getKernelForRemoteConnection(meta, m)
    \/ \E i \in Optional(ActiveInterpreter) : getActiveInterpreterResolves(i)
    \/ \E list \in {<<>>, <<InstalledSpec>>} : getKernelSpecsResolves(list)
    \/ \E list \in RunningSessions : getRunningSessionsResolves(list)
    \/ \E f \in Fetches : RemoteFetchRejects(f)
    \/ RemoteContinues
    \/ NextEnvironment

\* All the flows, with the restart-session callbacks running between their steps.
SpecAllFlows == Init /\ [][NextAllFlows]_vars

----------------------------------------------------------------------------
(* The selection prompts with kernels whose id or clientId is empty *)

\* Kernel.IKernelConnection types id and clientId as strings: a kernel with
\* both, one whose id is the empty string, one whose clientId is.
EmptyIdKernels ==
    { [id |-> "abc", clientId |-> "c1"],
      [id |-> "",    clientId |-> "c2"],
      [id |-> "def", clientId |-> ""] }

NextEmptyId ==
    \/ \E k \in EmptyIdKernels : addKernelToIgnoreList(k)
    \/ \E k \in EmptyIdKernels : removeKernelFromIgnoreList(k)
    \/ selectLocalKernel("raw", "absent")
    \/ selectRemoteKernel("absent")
    \/ \E list \in ProvidedLists : SuggestionsResolve(list)
    \/ \E choice \in 0..2 : QuickPickResolves(choice)
    \/ \E i \in Optional(OtherInterpreter) : SelectedModelInterpreterResolves(i)
    \/ \E i \in Optional(OtherInterpreter) : SelectedSpecInterpreterResolves(i)
    \/ SelectedSpecEnvironmentUpdated
    \/ NextUse
    \/ NextEnvironment

\* selectLocalKernel and selectRemoteKernel with the callbacks for such kernels.
SpecEmptyId == Init /\ [][NextEmptyId]_vars
----------------------------------------------------------------------------
(* Properties of getKernelForRemoteConnection *)

RemoteDone == call = "getKernelForRemoteConnection" /\ pc = "done"

\* notebookMetadata.id is set and a running session has a kernel with that id.
HasLiveSession ==
    /\ notebookMetadata # None
    /\ Truthy(notebookMetadata.id)
    /\ sessions # None
    /\ \E i \in 1..Len(sessions.items) :
           sessions.items[i].kernel.id = notebookMetadata.id

\* The scoring loop ran (no live session was returned).
Scored == RemoteDone /\ ~HasLiveSession

ScoreOf(i) == Score(specs[i], interpreter, notebookMetadata)

\* C1: when notebookMetadata.id is set and a running session's kernel has
\* that id, the call returns that session's kernel as kernelModel, with the
\* active interpreter and without a kernelSpec, whatever the spec list holds.
C1_LiveSessionWins ==
    (RemoteDone /\ HasLiveSession) =>
        /\ result.kernelSpec = None
        /\ result.interpreter = interpreter
        /\ result.kernelModel # None
        /\ result.kernelModel.id = notebookMetadata.id
        /\ \E i \in 1..Len(sessions.items) :
               /\ sessions.items[i] = result.kernelModel.session
               /\ sessions.items[i].kernel.id = result.kernelModel.id
               /\ sessions.items[i].kernel.name = result.kernelModel.name

\* A live session was returned although a spec of the list scores 28.
C1_Witness ==
    /\ RemoteDone /\ HasLiveSession
    /\ result.kernelModel # None
    /\ \E i \in 1..Len(specs) : ScoreOf(i) = 28

\* The least index whose score no other index beats.
IsEarliestBest(i) ==
    /\ \A j \in 1..Len(specs) : ScoreOf(j) <= ScoreOf(i)
    /\ \A j \in 1..(i - 1) : ScoreOf(j) < ScoreOf(i)

\* C2: the scoring loop returns the candidate with the highest score and,
\* among several with that score, the one earliest in the list.
C2_HighestScoreEarliest ==
    (Scored /\ specs # <<>>) =>
        \E i \in 1..Len(specs) :
            /\ IsEarliestBest(i)
            /\ bestMatch = specs[i]
            /\ bestScore = ScoreOf(i)
            /\ result.kernelSpec = specs[i]

\* Two different candidates tie for a positive highest score; the first is returned.
C2_Witness ==
    /\ Scored
    /\ Len(specs) >= 2
    /\ specs[1] # specs[2]
    /\ ScoreOf(1) = ScoreOf(2)
    /\ ScoreOf(1) > 0
    /\ IsEarliestBest(1)
    /\ result.kernelSpec = specs[1]

PossibleScores == {0, 4, 8, 12, 16, 20, 24, 28}

B2N(b) == IF b THEN 1 ELSE 0

\* Each of the eight values is the score of some candidate.
EveryPossibleScoreOccurs ==
    \A v \in PossibleScores :
        \E s \in SpecPool, i \in Interpreters, m \in Metadatas : Score(s, i, m) = v

\* C3: a candidate's score is 8 for the path match plus 4 for the version
\* match plus 16 for the display-name match, each counted independently; the
\* scores that occur are exactly 0, 4, 8, ..., 28, and a candidate matching
\* on all three scores 28.
C3_ScoreIsSumOfContributions ==
    /\ Scored =>
          /\ Len(scores) = Len(specs)
          /\ \A i \in 1..Len(specs) :
                /\ scores[i] = 8 * B2N(PathMatches(specs[i], interpreter))
                               + 4 * B2N(VersionMatches(specs[i], interpreter))
                               + 16 * B2N(DisplayNameMatches(specs[i], notebookMetadata))
                /\ scores[i] \in PossibleScores
    /\ EveryPossibleScoreOccurs

\* A candidate matched on path, version and display name and scored 28.
C3_Witness ==
    /\ Scored
    /\ \E i \in 1..Len(specs) :
          /\ PathMatches(specs[i], interpreter)
          /\ VersionMatches(specs[i], interpreter)
          /\ DisplayNameMatches(specs[i], notebookMetadata)
          /\ scores[i] = 28

\* No candidate of the list matches on any criterion.
NothingMatches ==
    \A i \in 1..Len(specs) :
        /\ ~PathMatches(specs[i], interpreter)
        /\ ~VersionMatches(specs[i], interpreter)
        /\ ~DisplayNameMatches(specs[i], notebookMetadata)

\* C4 as stated: when no candidate matches on any criterion the loop returns
\* no kernel spec and the best score stays at -1.
C4_NoMatchReturnsNone ==
    (Scored /\ NothingMatches) =>
        /\ result.kernelSpec = None
        /\ bestScore = -1

\* C4 amended: the loop returns no kernel spec with best score -1 only for an
\* empty list; for a non-empty list in which no candidate matches on any
\* criterion it returns the first candidate, with best score 0.
C4_NoMatchReturnsFirst ==
    (Scored /\ NothingMatches) =>
        IF specs = <<>>
        THEN result.kernelSpec = None /\ bestMatch = None /\ bestScore = -1
        ELSE result.kernelSpec = specs[1] /\ bestMatch = specs[1] /\ bestScore = 0

\* A non-empty list without any match, whose first candidate was returned.
C4_Witness ==
    /\ Scored /\ NothingMatches
    /\ Len(specs) >= 2
    /\ specs[1] # None
    /\ result.kernelSpec = specs[1]
    /\ bestScore = 0


----------------------------------------------------------------------------
(* Properties of useInterpreterAsKernel and the Local-Jupyter flow *)

\* C5: in one call of useInterpreterAsKernel, registerKernel is not called
\* when the dependencies are installed and a matching kernel spec is found;
\* it is called exactly once, and findMatchingKernelSpec not at all, when the
\* dependencies are not installed; it is called exactly once when they are
\* installed and no matching kernel spec is found.
C5_RegistrationDecision ==
    use # None =>
        /\ calls["registerKernel"] <= 1
        /\ (use.installed = "yes" /\ use.matching = "found") =>
               calls["registerKernel"] = 0
        /\ use.installed = "no" =>
               /\ calls["registerKernel"] = 1
               /\ calls["findMatchingKernelSpec(interpreter)"] = 0
        /\ (use.installed = "yes" /\ use.matching = "none") =>
               calls["registerKernel"] = 1

\* useInterpreterAsKernel returned after a check that reported installed, a
\* lookup that found nothing and one registration.
C5_Witness ==
    /\ pc = "done"
    /\ use # None
    /\ use.installed = "yes"
    /\ use.matching = "none"
    /\ calls["findMatchingKernelSpec(interpreter)"] = 1
    /\ calls["registerKernel"] = 1
    /\ result.kernelSpec = RegisteredSpec

\* C6: a failure of registerKernel reaches the caller of the call in flight:
\* the call rejects with it, returns no result, registerKernel is not called
\* again, and neither the notification nor the refresh of the suggestion
\* list is issued.
C6_RegistrationFailurePropagates ==
    calls["telemetry(KernelRegisterFailed)"] > 0 =>
        /\ pc = "failed"
        /\ thrown = "registerKernel"
        /\ result = None
        /\ calls["telemetry(KernelRegisterFailed)"] = 1
        /\ calls["registerKernel"] = 1
        /\ calls["showInformationMessage(registered)"] = 0
        /\ calls["showInformationMessage(fallback)"] = 0
        /\ detached["notification"] = "none"
        /\ detached["refresh"] = "none"

\* registerKernel failed in a call that would have notified the user.
C6_Witness ==
    /\ call = "getKernelForLocalConnection"
    /\ pc = "failed"
    /\ thrown = "registerKernel"
    /\ use # None
    /\ Notifies(use)

\* The steps that start useInterpreterAsKernel, a registration or the quick pick.
EscalationStarts ==
    { "use:areDependenciesInstalled", "use:registerKernel",
      "jupyter:searchAndRegisterKernel", "select:showQuickPick" }

EscalationBegins == pc' # pc /\ pc' \in EscalationStarts

\* C7 as stated: once the token is cancelled, at whatever point of the flow,
\* no step starts useInterpreterAsKernel, a registration or the quick pick.
C7_NoEscalationAfterSignal ==
    [][cancelToken = "cancelled" => ~EscalationBegins]_vars

\* C7 amended: when the token is cancelled by the time the fallback test is
\* made, no step starts useInterpreterAsKernel, a registration or the quick
\* pick; the test is the only place the token is looked at.
C7_NoEscalationWhenSignalledAtFallback ==
    [][(cancelToken' = "cancelled" /\ fallback' # "taken") => ~EscalationBegins]_vars

\* A declared kernel spec was not found, the token was cancelled at the
\* fallback test, and the flow returned.
C7_Witness ==
    /\ call = "getKernelForLocalConnection"
    /\ DeclaresKernelSpec(notebookMetadata)
    /\ fallback = "cancelled"
    /\ pc = "done"
    /\ calls["findMatchingKernelSpec(kernelspec)"] = 1

\* C8: in the Local-Jupyter flow, when the token is cancelled at the fallback
\* test, there is no active-interpreter lookup, no prompt and no
\* registration, and the empty result built so far is returned.
C8_CancelledAtFallbackReturnsEmpty ==
    fallback = "cancelled" =>
        /\ pc = "done"
        /\ result = EmptySelection
        /\ calls["getActiveInterpreter"] = 0
        /\ calls["showQuickPick"] = 0
        /\ calls["areDependenciesInstalled"] = 0
        /\ calls["registerKernel"] = 0
        /\ calls["searchAndRegisterKernel"] = 0
        /\ calls["showInformationMessage(fallback)"] = 0
        /\ calls["showInformationMessage(registered)"] = 0

\* No kernel spec is declared and the call was made with a cancelled token.
C8_Witness ==
    /\ call = "getKernelForLocalConnection"
    /\ type = "jupyter"
    /\ ~DeclaresKernelSpec(notebookMetadata)
    /\ fallback = "cancelled"
    /\ result = EmptySelection

----------------------------------------------------------------------------
(* Properties of the ignore list and the suggestion filter *)

\* The step that hands the filtered list to showQuickPick.
PromptShown == pc' = "select:showQuickPick" /\ pc # pc'

\* C9: the list handed to the prompt holds no candidate whose id is in the
\* ignore list (which holds the ids and the clientIds of the ignored
\* kernels) and holds every other fetched candidate, in order; a remove
\* takes both ids of the kernel out of the list, so a candidate that was
\* filtered because of one of them is in the next list.
C9_FilterHidesIgnored ==
    [][/\ PromptShown =>
            LET hide == kernelIdsToHide'
                shown == suggestions'
                got == fetched'
            IN  /\ \A i \in 1..Len(shown) : IdOrEmpty(shown[i]) \notin hide
                /\ shown = SelectSeq(got, LAMBDA item : IdOrEmpty(item) \notin hide)
                /\ \A j \in 1..Len(got) :
                       (IdOrEmpty(got[j]) \in filteredOut /\ IdOrEmpty(got[j]) \notin hide)
                           => \E i \in 1..Len(shown) : shown[i] = got[j]
       /\ \A k \in Kernels :
            removeKernelFromIgnoreList(k) =>
                k.id \notin kernelIdsToHide' /\ k.clientId \notin kernelIdsToHide'
      ]_vars

\* The prompt shows a candidate that an earlier filter had removed, and the
\* filter has removed another one from the same fetch.
C9_Witness ==
    /\ pc = "select:showQuickPick"
    /\ Len(suggestions) < Len(fetched)
    /\ \E i \in 1..Len(suggestions) : IdOrEmpty(suggestions[i]) \in filteredOut

\* The remove of a kernel has just followed the add of the same kernel.
PairDone == lastAdd # None /\ lastAdd.removed

\* C10 as stated: after addKernelToIgnoreList(k) immediately followed by
\* removeKernelFromIgnoreList(k) the filter output for every candidate list
\* is what it was before the pair.
C10_AddRemoveIsNoOp ==
    PairDone =>
        \A list \in SuggestionLists :
            FilterSuggestions(list, kernelIdsToHide)
                = FilterSuggestions(list, lastAdd.before)

\* C10 amended: the pair leaves the list without k's id and clientId; it is
\* a no-op (same list, same filter output for every candidate list) when
\* neither of the two was in the list before the pair.
C10_AddRemoveRemovesBoth ==
    PairDone =>
        LET k == lastAdd.kernel
            before == lastAdd.before
        IN  /\ kernelIdsToHide = before \ {k.id, k.clientId}
            /\ (k.id \notin before /\ k.clientId \notin before) =>
                   /\ kernelIdsToHide = before
                   /\ \A list \in SuggestionLists :
                          FilterSuggestions(list, kernelIdsToHide)
                              = FilterSuggestions(list, before)

\* The pair was a no-op on a list that was not empty.
C10_Witness ==
    /\ PairDone
    /\ lastAdd.before # {}
    /\ lastAdd.kernel.id \notin lastAdd.before
    /\ lastAdd.kernel.clientId \notin lastAdd.before
    /\ kernelIdsToHide = lastAdd.before

----------------------------------------------------------------------------
(* Properties of selectKernel *)

\* C11: when the quick pick resolves to no selection, selectKernel returns
\* the result with no field set in the same step: no dependency check, no
\* registration, no interpreter matching and no environment update is issued.
C11_NoPickReturnsEmpty ==
    [][(pc = "select:showQuickPick" /\ pc' \notin {pc, "failed"} /\ picked' = None) =>
          /\ pc' = "done"
          /\ result' = Selection(None, None, None)
          /\ calls' = calls
          /\ use' = None
      ]_vars

\* The prompt showed candidates, nothing was picked, and the call returned.
C11_Witness ==
    /\ pc = "done"
    /\ calls["showQuickPick"] = 1
    /\ Len(suggestions) > 0
    /\ picked = None
    /\ result = EmptySelection
    /\ calls["findMatchingInterpreter"] = 0
    /\ calls["areDependenciesInstalled"] = 0

----------------------------------------------------------------------------
(* Properties of the registration paths *)

\* The call in flight has asked for a registration.
ReachedRegistration ==
    calls["registerKernel"] > 0 \/ calls["searchAndRegisterKernel"] > 0

\* C12: a call that reached registerKernel or searchAndRegisterKernel and
\* returned has a result that is not all-empty, its interpreter being set;
\* a call in which a registration failed has rejected and returned nothing.
C12_RegistrationNeverReturnsEmpty ==
    /\ (pc = "done" /\ ReachedRegistration) =>
           /\ result # Selection(None, None, None)
           /\ result.interpreter # None
    /\ (calls["telemetry(KernelRegisterFailed)"] > 0
            \/ thrown = "jupyter:searchAndRegisterKernel") =>
           /\ pc = "failed"
           /\ result = None

\* searchAndRegisterKernel resolved to no kernel spec and the result still
\* carries the active interpreter.
C12_Witness ==
    /\ pc = "done"
    /\ calls["searchAndRegisterKernel"] = 1
    /\ result.kernelSpec = None
    /\ result.interpreter = ActiveInterpreter

----------------------------------------------------------------------------
(* Properties of the detached promises *)

\* A detached promise settles in this step.
Settles(task) == detached[task] = "pending" /\ detached'[task] \in {"resolved", "rejected"}

\* C13: the step in which the pre-warm, the refresh or a notification
\* resolves or rejects changes neither the position of the call in flight
\* nor its result nor what it has thrown, and no call fails with the failure
\* of one of them.
C13_DetachedNeverReachCaller ==
    [][/\ (\E task \in DetachedTasks : Settles(task)) =>
            /\ call' = call
            /\ pc' = pc
            /\ selection' = selection
            /\ result' = result
            /\ thrown' = thrown
       /\ thrown' \notin DetachedTasks
      ]_vars

\* The call returned the registered kernel spec with its pre-warm rejected,
\* its notification rejected and its refresh still pending.
C13_Witness ==
    /\ call = "getKernelForLocalConnection"
    /\ pc = "done"
    /\ result.kernelSpec = RegisteredSpec
    /\ detached["prewarm"] = "rejected"
    /\ detached["notification"] = "rejected"
    /\ detached["refresh"] = "pending"

----------------------------------------------------------------------------
(* Properties of the live-session result *)

\* getKernelForRemoteConnection returned the kernel model of a live session.
ReturnedLiveKernel ==
    call = "getKernelForRemoteConnection" /\ pc = "done" /\ result.kernelModel # None

\* C14: the returned kernel model's numberOfConnections is 0 when the
\* kernel's connections value is absent or has no integer to parse, and the
\* parsed integer otherwise; its lastActivityTime is the current time when
\* last_activity is absent.
C14_ConnectionsDefaultToZero ==
    ReturnedLiveKernel =>
        LET kernel == result.kernelModel.session.kernel
            parsed == IF kernel.connections = Absent THEN NaN
                      ELSE ParseInt(toString(kernel.connections))
        IN  /\ result.kernelModel.numberOfConnections =
                   IF parsed = NaN THEN Num(0) ELSE parsed
            /\ kernel.last_activity = Absent =>
                   result.kernelModel.lastActivityTime = Now

----------------------------------------------------------------------------
(* Properties of the version contribution *)

\* The index where the integer at the end of the name starts: a run of
\* digits that ends the name and that a non-digit precedes; 0 when the name
\* does not end that way.
TrailingIntegerStart(name) ==
    LET starts == {p \in 2..Len(name) :
                      /\ \A q \in p..Len(name) : IsDigit(name[q])
                      /\ ~IsDigit(name[p - 1])}
    IN  IF starts = {} THEN 0 ELSE CHOOSE p \in starts : TRUE

\* The interpreter's major version is defined and the first digit of the
\* integer at the end of the candidate's name equals it.
TrailingIntegerMatchesMajor(spec, interp) ==
    /\ spec # None
    /\ interp # None
    /\ interp.version # None
    /\ TrailingIntegerStart(spec.name) # 0
    /\ ParseDigit(spec.name[TrailingIntegerStart(spec.name)]) = interp.version.major

\* The version contribution is part of the score (the weights are distinct
\* powers of two).
HasVersionContribution(score) == (score \div VersionScore) % 2 = 1

\* C15: a candidate's score includes the version contribution exactly when
\* the interpreter's major version is defined, the candidate's name ends in
\* an integer that non-digits precede, and the first digit of that integer
\* equals the major version.
C15_VersionByTrailingInteger ==
    Scored =>
        \A i \in 1..Len(scores) :
            HasVersionContribution(scores[i])
                <=> TrailingIntegerMatchesMajor(specs[i], interpreter)

----------------------------------------------------------------------------
(* Properties of the Local-Jupyter flow *)

\* The Local-Jupyter flow with a declared kernel spec.
LocalJupyterDeclared ==
    /\ call = "getKernelForLocalConnection"
    /\ type = "jupyter"
    /\ DeclaresKernelSpec(notebookMetadata)

\* The declared kernel spec was found: the flow is past the lookup and the
\* fallback test was not made.
FoundDeclared ==
    /\ LocalJupyterDeclared
    /\ pc # "jupyter:findMatchingKernelSpec"
    /\ selection.kernelSpec # None
    /\ fallback = "not reached"

\* The step from the await at `from` to the next position of the call.
Proceeds(from) == pc = from /\ pc' \notin {from, "failed"}

\* C16: when the declared kernel spec is found, the flow awaits
\* findMatchingInterpreter, then updateKernelEnvironment, then returns the
\* found kernel spec with the interpreter; on this path there is no
\* active-interpreter lookup, dependency check, registration, prompt or
\* notification.
C16_FoundSpecPath ==
    [][/\ (LocalJupyterDeclared /\ Proceeds("jupyter:findMatchingKernelSpec")
              /\ selection'.kernelSpec # None) =>
            /\ pc' = "jupyter:findMatchingInterpreter"
            /\ calls'["findMatchingInterpreter"] = 1
            /\ calls'["updateKernelEnvironment"] = 0
       /\ Proceeds("jupyter:findMatchingInterpreter") =>
            /\ pc' = "jupyter:updateKernelEnvironment"
            /\ calls'["updateKernelEnvironment"] = 1
            /\ selection'.kernelSpec = selection.kernelSpec
       /\ Proceeds("jupyter:updateKernelEnvironment") =>
            /\ pc' = "done"
            /\ result' = Selection(selection.kernelSpec, selection.interpreter, None)
            /\ result'.kernelSpec # None
       /\ FoundDeclared' =>
            \A c \in {"getActiveInterpreter", "areDependenciesInstalled", "registerKernel",
                      "searchAndRegisterKernel", "showQuickPick",
                      "showInformationMessage(fallback)",
                      "showInformationMessage(registered)"} : calls'[c] = 0
      ]_vars

\* The flow returned the found kernel spec and the interpreter matching it.
C16_Witness ==
    /\ FoundDeclared
    /\ pc = "done"
    /\ result = Selection(InstalledSpec, OtherInterpreter, None)
    /\ calls["findMatchingInterpreter"] = 1
    /\ calls["updateKernelEnvironment"] = 1

\* The Local-Jupyter flow without a declared kernel spec.
LocalJupyterUndeclared ==
    /\ call = "getKernelForLocalConnection"
    /\ type = "jupyter"
    /\ ~DeclaresKernelSpec(notebookMetadata)

\* C17: with a declared kernel spec that was not found and no cancellation,
\* an active interpreter leads to useInterpreterAsKernel with the declared
\* display name and no quick pick, and the lack of one leads to
\* selectLocalKernel, the only way to the quick pick.  With no declared
\* kernel spec the quick pick is never shown and searchAndRegisterKernel is
\* called only for an active interpreter.
C17_FallbackBranches ==
    [][/\ \A i \in Optional(ActiveInterpreter) :
            JupyterActiveInterpreterResolves(i) =>
                IF i # None
                THEN /\ pc' = "use:areDependenciesInstalled"
                     /\ use'.interpreter = i
                     /\ use'.type = "jupyter"
                     /\ use'.displayNameOfKernelNotFound =
                            notebookMetadata.kernelspec.display_name
                     /\ calls'["showQuickPick"] = 0
                     /\ calls'["getKernelSelectionsForLocalSession"] = 1
                ELSE /\ pc' = "select:getKernelSelectionsForLocalSession"
                     /\ use' = None
       /\ \A i \in Optional(ActiveInterpreter) :
            JupyterNoSpecActiveInterpreterResolves(i) =>
                IF i # None
                THEN /\ pc' = "jupyter:searchAndRegisterKernel"
                     /\ calls'["searchAndRegisterKernel"] = 1
                ELSE /\ pc' = "done"
                     /\ calls'["searchAndRegisterKernel"] = 0
       /\ (call' = "getKernelForLocalConnection" /\ calls'["showQuickPick"] > 0) =>
            /\ LocalJupyterDeclared'
            /\ fallback' = "taken"
            /\ calls'["getActiveInterpreter"] = 1
            /\ use' # None => use'.displayNameOfKernelNotFound = Undefined
       /\ LocalJupyterUndeclared' =>
            /\ calls'["showQuickPick"] = 0
            /\ use' = None
            /\ calls'["searchAndRegisterKernel"] > 0 => selection'.interpreter # None
      ]_vars

\* useInterpreterAsKernel was entered with the active interpreter and the
\* declared display name, and returned without a quick pick.
C17_Witness ==
    /\ LocalJupyterDeclared
    /\ fallback = "taken"
    /\ pc = "done"
    /\ use # None
    /\ use.interpreter = ActiveInterpreter
    /\ use.displayNameOfKernelNotFound = notebookMetadata.kernelspec.display_name
    /\ calls["showQuickPick"] = 0

----------------------------------------------------------------------------
(* Properties of the raw and the noConnection branches *)

\* What a call of getKernelForLocalConnection with the type raw may call.
RawCollaborators ==
    {"getKernelSelectionsForLocalSession", "findKernelSpec", "findMatchingInterpreter"}

\* C18: getKernelForLocalConnection always issues the pre-warm.  With the
\* type raw it calls findKernelSpec once and findMatchingInterpreter only
\* for a spec that was found, and nothing else: no prompt, notification,
\* dependency check or registration.  With the type noConnection it calls
\* nothing but the pre-warm and returns the empty result.
C18_RawAndNoConnection ==
    call = "getKernelForLocalConnection" =>
        /\ detached["prewarm"] # "none"
        /\ calls["getKernelSelectionsForLocalSession"] >= 1
        /\ type = "raw" =>
               /\ \A c \in Collaborators \ RawCollaborators : calls[c] = 0
               /\ calls["getKernelSelectionsForLocalSession"] = 1
               /\ calls["findKernelSpec"] = 1
               /\ calls["findMatchingInterpreter"] <= 1
               /\ calls["findMatchingInterpreter"] = 1 => selection.kernelSpec # None
               /\ detached["notification"] = "none"
               /\ detached["refresh"] = "none"
               /\ use = None
               /\ pc = "done" => result = selection
        /\ type = "noConnection" =>
               /\ pc = "done"
               /\ result = Selection(None, None, None)
               /\ \A c \in Collaborators \ {"getKernelSelectionsForLocalSession"} :
                      calls[c] = 0
               /\ calls["getKernelSelectionsForLocalSession"] = 1

\* A raw call found a spec on disk and the interpreter matching it.
C18_Witness ==
    /\ call = "getKernelForLocalConnection"
    /\ type = "raw"
    /\ pc = "done"
    /\ result = Selection(InstalledSpec, OtherInterpreter, None)
    /\ detached["prewarm"] = "rejected"

----------------------------------------------------------------------------
(* Properties of selectJupyterKernel *)

\* The two texts are equal up to the case of their letters.
EqualsIgnoringCase(a, b) ==
    /\ Len(a) = Len(b)
    /\ \A k \in 1..Len(a) : LowerChar(a[k]) = LowerChar(b[k])

\* Locality as the claim states it.
ClaimedLocal(connection, uri) ==
    IF connection # None /\ connection.localLaunch # Undefined
    THEN connection.localLaunch = "true"
    ELSE EqualsIgnoringCase(uri, JupyterServerLocalLaunch)

\* C19: selectJupyterKernel takes locality from connection.localLaunch when
\* it is defined, and from the case-insensitive comparison of the configured
\* URI with the local-launch value otherwise.  Local: the local select flow.
\* Not local, with a connection of the type jupyter: a session manager is
\* created, then the remote select flow runs.  Otherwise nothing is
\* returned, with no prompt and no session manager.
C19_LocalityDecision ==
    [][/\ \A connection \in Connections, uri \in ServerURIs, t \in {"raw", "jupyter"} :
            selectJupyterKernel(connection, uri, t) =>
                IF ClaimedLocal(connection, uri)
                THEN /\ pc' = "select:getKernelSelectionsForLocalSession"
                     /\ calls'["getKernelSelectionsForLocalSession"] = 1
                     /\ calls'["jupyterSessionManagerFactory.create"] = 0
                ELSE IF connection # None /\ connection.type = "jupyter"
                THEN /\ pc' = "selectJupyter:jupyterSessionManagerFactory.create"
                     /\ calls'["jupyterSessionManagerFactory.create"] = 1
                     /\ calls'["getKernelSelectionsForRemoteSession"] = 0
                     /\ calls'["showQuickPick"] = 0
                ELSE /\ pc' = "done"
                     /\ result' = UndefinedResult
                     /\ calls' = NoCalls
       /\ Proceeds("selectJupyter:jupyterSessionManagerFactory.create") =>
            /\ pc' = "select:getKernelSelectionsForRemoteSession"
            /\ calls'["getKernelSelectionsForRemoteSession"] = 1
            /\ calls'["showQuickPick"] = 0
       /\ (call' = "selectJupyterKernel" /\ calls'["showQuickPick"] > 0) =>
            calls'["getKernelSelectionsForLocalSession"]
                + calls'["jupyterSessionManagerFactory.create"] >= 1
      ]_vars

\* The remote select flow showed its prompt after the session manager was created.
C19_Witness ==
    /\ call = "selectJupyterKernel"
    /\ pc = "select:showQuickPick"
    /\ calls["jupyterSessionManagerFactory.create"] = 1
    /\ calls["getKernelSelectionsForRemoteSession"] = 1

----------------------------------------------------------------------------
(* Properties of the three fetches of getKernelForRemoteConnection *)

\* C20: the three fetches are issued together and settle in any order.
\* While one is pending and none has failed the call is at the join with no
\* result and no scoring done; when one fails the call fails with it and
\* returns nothing; a call that returned had all three resolved.
C20_FetchesJoinAllOrNothing ==
    call = "getKernelForRemoteConnection" =>
        /\ \A f \in Fetches : fetch[f] # "idle"
        /\ pc = "remote:Promise.all" =>
               /\ result = None
               /\ bestMatch = None
               /\ bestScore = InitialBestScore
               /\ scores = <<>>
               /\ \A f \in Fetches : fetch[f] # "failed"
        /\ (\E f \in Fetches : fetch[f] = "failed") =>
               /\ pc = "failed"
               /\ thrown \in Fetches
               /\ fetch[thrown] = "failed"
               /\ result = None
               /\ scores = <<>>
        /\ pc = "done" => \A f \in Fetches : fetch[f] = "ok"
        /\ (\E f \in Fetches : fetch[f] = "pending") => pc \in {"remote:Promise.all", "failed"}

\* The running-sessions fetch failed: the call failed although the
\* interpreter had resolved and the kernel specs were still pending.
C20_Witness ==
    /\ call = "getKernelForRemoteConnection"
    /\ pc = "failed"
    /\ fetch["sessions"] = "failed"
    /\ fetch["interpreter"] = "ok"
    /\ fetch["specs"] = "pending"
    /\ interpreter # None
    /\ result = None

----------------------------------------------------------------------------
(* Properties of the flows with respect to the ignore list *)

\* The step is one of the restart-session callbacks.
CallbackStep ==
    \E k \in RestartKernels : addKernelToIgnoreList(k) \/ removeKernelFromIgnoreList(k)

\* C21: the ignore list changes only in a step of addKernelToIgnoreList or
\* removeKernelFromIgnoreList; a step of a selection flow, whether it goes on,
\* returns a result, returns the empty result or fails, leaves it as it is.
C21_OnlyCallbacksChangeIgnoreList ==
    [][/\ kernelIdsToHide' # kernelIdsToHide => CallbackStep
       /\ (pc' # pc \/ calls' # calls \/ detached' # detached
              \/ result' # result \/ thrown' # thrown) =>
            kernelIdsToHide' = kernelIdsToHide
      ]_vars

\* askForLocalKernel went through the select flow, whose filter removed the
\* candidate of an ignored kernel, and returned with the list as it was.
C21_Witness ==
    /\ call = "askForLocalKernel"
    /\ pc = "done"
    /\ kernelIdsToHide = {"abc", "c1"}
    /\ Len(suggestions) < Len(fetched)
    /\ picked # None

\* The ids of the candidates of a list.
IdsOf(list) == {IdOrEmpty(list[i]) : i \in 1..Len(list)}

\* The awaits of selectKernel after the list was handed to the prompt.
AfterPrompt ==
    { "select:showQuickPick", "select:findMatchingInterpreter(kernelModel)",
      "select:findMatchingInterpreter(kernelSpec)", "select:updateKernelEnvironment" }

\* C22: the ignore list is read in the step in which the suggestion fetch
\* resolves, as it is then: whatever was added before that step, also while
\* the fetch was pending, is absent from the list shown.  A callback that
\* runs afterwards changes neither the list shown nor what the user can pick
\* from it, so that the kernel model returned may be in the ignore list.
C22_IgnoreListReadWhenFetchResolves ==
    [][/\ PromptShown =>
            /\ kernelIdsToHide' = kernelIdsToHide
            /\ IdsOf(suggestions') \cap kernelIdsToHide = {}
            /\ IdsOf(fetched') \ kernelIdsToHide \subseteq IdsOf(suggestions')
       /\ (pc \in AfterPrompt /\ kernelIdsToHide' # kernelIdsToHide) =>
            /\ suggestions' = suggestions
            /\ pc' = pc
       /\ (pc = "select:showQuickPick" /\ pc' # pc /\ picked' # None) =>
            \E i \in 1..Len(suggestions) : picked' = suggestions[i]
       /\ (pc \in AfterPrompt /\ pc' = "done" /\ picked # None
              /\ picked.kernelModel # None) =>
            result'.kernelModel = picked.kernelModel
      ]_vars

\* The kernel was added while the fetch was pending or earlier and is not
\* shown; the kernel of the returned model was added while the prompt was
\* open.
C22_Witness ==
    /\ call \in {"selectLocalKernel", "selectRemoteKernel"}
    /\ pc = "done"
    /\ result.kernelModel # None
    /\ result.kernelModel.id \in kernelIdsToHide
    /\ \E i \in 1..Len(suggestions) : suggestions[i].kernelModel = result.kernelModel

\* The candidates of a list that carry no live kernel model: plain kernel
\* specs and interpreters.
WithoutModel(list) == SelectSeq(list, LAMBDA item : item.kernelModel = None)

HasEmptyId(kernel) == kernel.id = "" \/ kernel.clientId = ""

RemoteResultOf(meta, interp, specList, sessionList) ==
    LET session == LiveSession(meta, sessionList)
        loop == ScoringLoop(1, specList, interp, meta,
                            [bestMatch |-> None, bestScore |-> InitialBestScore,
                             scores |-> <<>>])
    IN  IF session # None THEN LiveResult(session, interp)
        ELSE SpecResult(loop.bestMatch, interp)

\* C24: the result of getKernelForRemoteConnection is a function of the
\* three responses and the notebook metadata alone, so it is the same for
\* every content of the ignore list, whatever the callbacks did while the
\* call was in flight; the kernel of a running session that the metadata
\* names is returned as the kernel model also when its id is in the list.
C24_RemoteResultIgnoresIgnoreList ==
    RemoteDone =>
        /\ result = RemoteResultOf(notebookMetadata, interpreter, specs, sessions)
        /\ (HasLiveSession /\ notebookMetadata.id \in kernelIdsToHide) =>
               /\ result.kernelModel # None
               /\ result.kernelModel.id = notebookMetadata.id
               /\ result.kernelSpec = None

\* The running kernel "abc" is returned while the ignore list holds "abc".
C24_Witness ==
    /\ RemoteDone
    /\ HasLiveSession
    /\ "abc" \in kernelIdsToHide
    /\ result.kernelModel # None
    /\ result.kernelModel.id = "abc"

----------------------------------------------------------------------------
(* Properties of disableUI *)

InformationMessages ==
    {"showInformationMessage(fallback)", "showInformationMessage(registered)"}

\* C25: a call of getKernelForLocalConnection with disableUI shows no
\* information message on any path, yet disableUI keeps no prompt away: when
\* the declared kernel spec was not found, the token is not cancelled and
\* there is no active interpreter, the suggestions are fetched and the quick
\* pick is shown, and the interpreter picked there goes to
\* useInterpreterAsKernel with disableUI false and without a display name.
C25_DisableUISuppressesOnlyNotifications ==
    [][/\ (call' = "getKernelForLocalConnection" /\ disableUI') =>
            /\ \A m \in InformationMessages : calls'[m] = 0
            /\ detached'["notification"] = "none"
       /\ (disableUI /\ pc = "jupyter:getActiveInterpreter"
              /\ pc' \notin {pc, "failed"} /\ use' = use) =>
            /\ pc' = "select:getKernelSelectionsForLocalSession"
            /\ calls'["getKernelSelectionsForLocalSession"] =
                   calls["getKernelSelectionsForLocalSession"] + 1
       /\ (disableUI /\ PromptShown) =>
            calls'["showQuickPick"] = calls["showQuickPick"] + 1
       /\ (pc = "select:showQuickPick" /\ pc' = "use:areDependenciesInstalled") =>
            /\ picked'.interpreter # None
            /\ use'.interpreter = picked'.interpreter
            /\ use'.disableUI = FALSE
            /\ use'.displayNameOfKernelNotFound = Undefined
            /\ use'.type = "jupyter"
      ]_vars

\* The call had disableUI, the declared kernel spec was not found, there was
\* no active interpreter, and the interpreter picked in the quick pick was
\* registered as a kernel by a call with disableUI false.
C25_Witness ==
    /\ call = "getKernelForLocalConnection"
    /\ type = "jupyter"
    /\ disableUI
    /\ DeclaresKernelSpec(notebookMetadata)
    /\ fallback = "taken"
    /\ calls["getActiveInterpreter"] = 1
    /\ calls["showQuickPick"] = 1
    /\ picked # None
    /\ use # None
    /\ use.interpreter = picked.interpreter
    /\ ~use.disableUI
    /\ calls["registerKernel"] = 1
    /\ pc = "done"
====
